---- MODULE Spec2Model ----
(***************************************************************************)
(* Model of the schema-discovery and instruction-generation pipeline of    *)
(* agent_instruction_generator.py:                                         *)
(*   - process_folder        (object-store schema sampler)                 *)
(*   - analyze_csv_files     (local-file schema sampler)                   *)
(*   - generate_instruction, get_all_tables, get_table_schema and          *)
(*     _wait_for_query_execution (instruction composer and catalog reader) *)
(* Each function is a state machine of its own (SpecFolder, SpecCsv,       *)
(* SpecInstr); the variables of the functions that are not running keep    *)
(* their idle values.                                                      *)
(***************************************************************************)
EXTENDS Naturals, Sequences, FiniteSets, TLC

VARIABLES
    \* ---- process_folder ----
    f_pc,            \* "list" | "lines" | "done"
    folder_context,  \* [columns |-> set of keys, sample_data |-> None or a record]
    f_result,        \* None, or the returned folder_context (columns as a list)
    objIdx,          \* number of listed objects visited so far
    cur,             \* lines of the open gzip stream not yet yielded
    curCorrupt,      \* the open gzip stream is damaged (raises at some read)
    \* history of the scan (not program state)
    decoded,         \* set of mapping records that reached line 36
    firstRec,        \* the first of them, None before
    validKeys,       \* keys of every valid mapping line of the objects read
    colsAtOpen,      \* folder_context.columns when the current object was fetched
    sampleAtOpen,    \* folder_context.sample_data at that moment
    lastErr,         \* outcome of the last object: "none"|"fetch"|"gzip"|"unicode"
    anyMatch,        \* some listed key ended with .json.gz
    \* ---- analyze_csv_files ----
    c_pc,            \* "walk" | "done" | "raised"
    data_context,    \* key -> [columns, sample_data]
    c_result,        \* None, or the returned data_context
    nFiles,          \* number of files the walk has yielded so far
    processed,       \* history: the .csv files stored so far, in order
    \* ---- generate_instruction and the catalog reader ----
    i_pc,            \* "start" | "ctx_loop" | "submit" | "poll" | "sleep" |
                     \* "results" | "table_loop" | "done" | "raised"
    database_name,   \* argument
    env,             \* argument
    gi_data_context, \* argument data_context: None, or a mapping given as
                     \* the list of its items in iteration order
    instruction_parts,
    idx,             \* position of the running for loop (1-based)
    tables,          \* what get_all_tables returned
    op,              \* the catalog operation in progress
    jobs,            \* the Athena query executions, in submission order;
                     \* query_execution_id is the index of the last one
    polls,           \* passes of the running wait loop that went to sleep
    i_result,        \* None, or the returned instruction text
    i_error          \* None, or the message of the raised exception

fvars == <<f_pc, folder_context, f_result, objIdx, cur, curCorrupt,
           decoded, firstRec, validKeys, colsAtOpen, sampleAtOpen, lastErr, anyMatch>>

cvars == <<c_pc, data_context, c_result, nFiles, processed>>

ivars == <<i_pc, database_name, env, gi_data_context, instruction_parts, idx,
           tables, op, jobs, polls, i_result, i_error>>

vars == <<fvars, cvars, ivars>>

\* what a function leaves alone: the variables of the other functions
notFolder == <<cvars, ivars>>
notCsv == <<fvars, ivars>>
notInstr == <<fvars, cvars>>

\* Python's None, and a value that is not None (an optional value is a
\* sequence of length at most one)
None == <<>>
Some(v) == <<v>>

(***************************************************************************)
(* Bounds of the model                                                     *)
(***************************************************************************)
MaxObjs == 2     \* objects listed under the scan root
MaxLines == 4    \* lines in one gzip object
MaxFiles == 3    \* files found by the directory walk
MaxEntries == 2  \* entries of a supplied data_context
MaxTables == 2   \* tables listed by SHOW TABLES
MaxPolls == 2    \* polls of one job that find it still running

(***************************************************************************)
(* process_folder: JSON lines                                              *)
(***************************************************************************)
\* A JSON object as the set of its <<key, value>> members.
Rec0 == {}
Rec1 == {<<"a", 1>>}
Rec2 == {<<"b", 2>>}
Records == {Rec0, Rec1, Rec2}

\* A raw line of a decompressed object: whether its bytes are valid UTF-8,
\* what its text is as JSON ("object", another JSON value, or no JSON at
\* all), and the members when it is an object.
MkLine(u, j, m) == [utf8 |-> u, json |-> j, kv |-> m]
Lines ==
    {MkLine(TRUE, "object", r) : r \in Records}
      \cup {MkLine(TRUE, "other", {}), MkLine(TRUE, "invalid", {}),
            MkLine(FALSE, "invalid", {})}

\* json_data.keys()
KeysOf(r) == {p[1] : p \in r}

\* line.decode('utf-8') raises UnicodeDecodeError
RaisesUnicodeError(l) == ~l.utf8
\* json.loads(...) raises json.JSONDecodeError
RaisesJSONDecodeError(l) == l.utf8 /\ l.json = "invalid"
\* isinstance(json_data, dict)
IsDict(l) == l.utf8 /\ l.json = "object"

RECURSIVE SeqsUpTo(_, _)
SeqsUpTo(S, n) ==
    IF n = 0 THEN {<<>>}
    ELSE LET shorter == SeqsUpTo(S, n - 1)
         IN  shorter \cup {Append(s, x) : s \in shorter, x \in S}

LineSeqs == SeqsUpTo(Lines, MaxLines)

\* Keys of the valid mapping lines of a whole object
ValidKeysOf(ls) ==
    UNION {KeysOf(ls[i].kv) : i \in {j \in 1..Len(ls) : IsDict(ls[j])}}

(***************************************************************************)
(* process_folder: the scan                                                *)
(***************************************************************************)
FolderStart ==
    /\ f_pc = "list"
    /\ folder_context = [columns |-> {}, sample_data |-> None]
    /\ f_result = None
    /\ objIdx = 0
    /\ cur = <<>>
    /\ curCorrupt = FALSE
    /\ decoded = {}
    /\ firstRec = None
    /\ validKeys = {}
    /\ colsAtOpen = {}
    /\ sampleAtOpen = None
    /\ lastErr = "none"
    /\ anyMatch = FALSE

\* line 28: the key does not end with '.json.gz'
SkipObject ==
    /\ f_pc = "list"
    /\ objIdx < MaxObjs
    /\ objIdx' = objIdx + 1
    /\ UNCHANGED <<notFolder, f_pc, folder_context, f_result, cur, curCorrupt,
                   decoded, firstRec, validKeys, colsAtOpen, sampleAtOpen,
                   lastErr, anyMatch>>

\* lines 30-31 raise (get_object or Body.read fails): caught at line 43
FetchFail ==
    /\ f_pc = "list"
    /\ objIdx < MaxObjs
    /\ objIdx' = objIdx + 1
    /\ anyMatch' = TRUE
    /\ colsAtOpen' = folder_context.columns
    /\ sampleAtOpen' = folder_context.sample_data
    /\ lastErr' = "fetch"
    /\ UNCHANGED <<notFolder, f_pc, folder_context, f_result, cur, curCorrupt,
                   decoded, firstRec, validKeys>>

\* lines 30-31: the object is fetched and its gzip stream opened
OpenObject ==
    /\ f_pc = "list"
    /\ objIdx < MaxObjs
    /\ \E ls \in LineSeqs, c \in BOOLEAN :
         /\ cur' = ls
         /\ curCorrupt' = c
         /\ validKeys' = IF c THEN validKeys ELSE validKeys \cup ValidKeysOf(ls)
    /\ objIdx' = objIdx + 1
    /\ anyMatch' = TRUE
    /\ colsAtOpen' = folder_context.columns
    /\ sampleAtOpen' = folder_context.sample_data
    /\ lastErr' = "none"
    /\ f_pc' = "lines"
    /\ UNCHANGED <<notFolder, folder_context, f_result, decoded, firstRec>>

\* the merge with the column update moved under the sample_data test
MergeRecord_UpdateOnlyFirst(ctx, r) ==
    IF ctx.sample_data = None
    THEN [columns |-> ctx.columns \cup KeysOf(r), sample_data |-> Some(r)]
    ELSE ctx

\* the merge with a truthiness test (if not sample_data) for the None test
MergeRecord_Truthiness(ctx, r) ==
    [columns |-> ctx.columns \cup KeysOf(r),
     sample_data |-> IF ctx.sample_data = None \/ ctx.sample_data = Some({})
                     THEN Some(r)
                     ELSE ctx.sample_data]

\* lines 36-38: the merge of one mapping record
MergeRecord(ctx, r) ==
    [columns |-> ctx.columns \cup KeysOf(r),
     sample_data |-> IF ctx.sample_data = None THEN Some(r)
                     ELSE ctx.sample_data]

\* lines 32-38: a line that decodes to a dict
LineDict ==
    /\ f_pc = "lines"
    /\ cur # <<>>
    /\ IsDict(Head(cur))
    /\ folder_context' = MergeRecord(folder_context, Head(cur).kv)
    /\ decoded' = decoded \cup {Head(cur).kv}
    /\ firstRec' = IF decoded = {} THEN Some(Head(cur).kv) ELSE firstRec
    /\ validKeys' = IF curCorrupt THEN validKeys \cup KeysOf(Head(cur).kv)
                    ELSE validKeys
    /\ cur' = Tail(cur)
    /\ UNCHANGED <<notFolder, f_pc, f_result, objIdx, curCorrupt, colsAtOpen,
                   sampleAtOpen, lastErr, anyMatch>>

\* lines 39-40: a JSON value that is no dict
LineNonDict ==
    /\ f_pc = "lines"
    /\ cur # <<>>
    /\ Head(cur).utf8 /\ Head(cur).json = "other"
    /\ cur' = Tail(cur)
    /\ UNCHANGED <<notFolder, f_pc, folder_context, f_result, objIdx,
                   curCorrupt, decoded, firstRec, validKeys, colsAtOpen,
                   sampleAtOpen, lastErr, anyMatch>>

\* lines 41-42: json.JSONDecodeError is caught, the loop goes on
LineBadJson ==
    /\ f_pc = "lines"
    /\ cur # <<>>
    /\ RaisesJSONDecodeError(Head(cur))
    /\ cur' = Tail(cur)
    /\ UNCHANGED <<notFolder, f_pc, folder_context, f_result, objIdx,
                   curCorrupt, decoded, firstRec, validKeys, colsAtOpen,
                   sampleAtOpen, lastErr, anyMatch>>

\* line 34: UnicodeDecodeError is no JSONDecodeError; it leaves the line
\* loop and is caught at line 43
LineBadUtf8 ==
    /\ f_pc = "lines"
    /\ cur # <<>>
    /\ RaisesUnicodeError(Head(cur))
    /\ cur' = <<>>
    /\ curCorrupt' = FALSE
    /\ lastErr' = "unicode"
    /\ f_pc' = "list"
    /\ UNCHANGED <<notFolder, folder_context, f_result, objIdx, decoded,
                   firstRec, validKeys, colsAtOpen, sampleAtOpen, anyMatch>>

\* line 32: the damaged stream raises (BadGzipFile, EOFError) at some read,
\* at the latest where the end of the stream would be; caught at line 43
StreamError ==
    /\ f_pc = "lines"
    /\ curCorrupt
    /\ cur' = <<>>
    /\ curCorrupt' = FALSE
    /\ lastErr' = "gzip"
    /\ f_pc' = "list"
    /\ UNCHANGED <<notFolder, folder_context, f_result, objIdx, decoded,
                   firstRec, validKeys, colsAtOpen, sampleAtOpen, anyMatch>>

\* line 32: the stream is exhausted
EndOfObject ==
    /\ f_pc = "lines"
    /\ cur = <<>>
    /\ ~curCorrupt
    /\ f_pc' = "list"
    /\ UNCHANGED <<notFolder, folder_context, f_result, objIdx, cur,
                   curCorrupt, decoded, firstRec, validKeys, colsAtOpen,
                   sampleAtOpen, lastErr, anyMatch>>

RECURSIVE Perms(_)
\* the lists that enumerate a set once each
Perms(S) ==
    IF S = {} THEN {<<>>}
    ELSE UNION {{<<x>> \o p : p \in Perms(S \ {x})} : x \in S}

\* lines 46-47: the listing is exhausted; columns becomes a list (in the
\* set's iteration order) and the context is returned
FolderReturn ==
    /\ f_pc = "list"
    /\ \E order \in Perms(folder_context.columns) :
         f_result' = Some([columns |-> order,
                           sample_data |-> folder_context.sample_data])
    /\ f_pc' = "done"
    /\ UNCHANGED <<notFolder, folder_context, objIdx, cur, curCorrupt,
                   decoded, firstRec, validKeys, colsAtOpen, sampleAtOpen,
                   lastErr, anyMatch>>

FolderIdle ==
    /\ f_pc = "idle"
    /\ folder_context = [columns |-> {}, sample_data |-> None]
    /\ f_result = None
    /\ objIdx = 0
    /\ cur = <<>>
    /\ curCorrupt = FALSE
    /\ decoded = {}
    /\ firstRec = None
    /\ validKeys = {}
    /\ colsAtOpen = {}
    /\ sampleAtOpen = None
    /\ lastErr = "none"
    /\ anyMatch = FALSE

FolderNext ==
    \/ SkipObject
    \/ FetchFail
    \/ OpenObject
    \/ LineDict
    \/ LineNonDict
    \/ LineBadJson
    \/ LineBadUtf8
    \/ StreamError
    \/ EndOfObject
    \/ FolderReturn

(***************************************************************************)
(* analyze_csv_files                                                       *)
(***************************************************************************)
RECURSIVE ReplaceSpaces(_)
\* str.replace(' ', '_')
ReplaceSpaces(s) ==
    IF Len(s) = 0 THEN s
    ELSE (IF SubSeq(s, 1, 1) = " " THEN "_" ELSE SubSeq(s, 1, 1))
           \o ReplaceSpaces(SubSeq(s, 2, Len(s)))

\* str.endswith(suffix)
EndsWith(s, suffix) ==
    /\ Len(s) >= Len(suffix)
    /\ SubSeq(s, Len(s) - Len(suffix) + 1, Len(s)) = suffix

\* Paths of files relative to root_folder, split at os.sep: files of the
\* root itself, of a top-level directory, and of a directory below one.
DirNames == {"a b", "a_b", "c"}
FileNames == {"x.csv", "y z.csv", "n.txt"}
RelPaths ==
    {<<f>> : f \in FileNames}
      \cup {<<d, f>> : d \in DirNames, f \in FileNames}
      \cup {<<d, "s t", "x.csv">> : d \in DirNames}

\* What pd.read_csv finds in a file: the header's columns and the first row
\* (None when the file has a header and no row).
Tables ==
    {[columns |-> <<"id", "fare">>,
      first |-> Some({<<"id", 1>>, <<"fare", 2>>})],
     [columns |-> <<"id", "tip">>,
      first |-> Some({<<"id", 3>>, <<"tip", 4>>})],
     [columns |-> <<"id">>, first |-> None]}

\* line 87: the key of a file
KeyOfPath(path) == ReplaceSpaces(path[1])

\* line 88 as keeping an entry that is already there
Store_KeepFirst(ctx, key, entry) ==
    IF key \in DOMAIN ctx THEN ctx
    ELSE [k \in DOMAIN ctx \cup {key} |-> IF k = key THEN entry ELSE ctx[k]]

\* line 88: data_context[relative_path] = {...}
Store(ctx, key, entry) ==
    [k \in DOMAIN ctx \cup {key} |-> IF k = key THEN entry ELSE ctx[k]]

CsvStart ==
    /\ c_pc = "walk"
    /\ data_context = <<>>
    /\ c_result = None
    /\ nFiles = 0
    /\ processed = <<>>

CsvIdle ==
    /\ c_pc = "idle"
    /\ data_context = <<>>
    /\ c_result = None
    /\ nFiles = 0
    /\ processed = <<>>

\* line 82: a file whose name does not end with '.csv'
SkipFile ==
    /\ c_pc = "walk"
    /\ nFiles < MaxFiles
    /\ \E path \in RelPaths : ~EndsWith(path[Len(path)], ".csv")
    /\ nFiles' = nFiles + 1
    /\ UNCHANGED <<notCsv, c_pc, data_context, c_result, processed>>

\* lines 83-88: a .csv file with at least one row
StoreFile ==
    /\ c_pc = "walk"
    /\ nFiles < MaxFiles
    /\ \E path \in RelPaths, t \in Tables :
         /\ EndsWith(path[Len(path)], ".csv")
         /\ t.first # None
         /\ LET entry == [columns |-> t.columns, sample_data |-> t.first[1]]
            IN  /\ data_context' = Store(data_context, KeyOfPath(path), entry)
                /\ processed' = Append(processed,
                                       [path |-> path, entry |-> entry])
    /\ nFiles' = nFiles + 1
    /\ UNCHANGED <<notCsv, c_pc, c_result>>

\* line 86: df.head(1).to_dict(orient='records')[0] raises IndexError for a
\* .csv file without rows; nothing catches it
EmptyFile ==
    /\ c_pc = "walk"
    /\ nFiles < MaxFiles
    /\ \E path \in RelPaths, t \in Tables :
         /\ EndsWith(path[Len(path)], ".csv")
         /\ t.first = None
    /\ nFiles' = nFiles + 1
    /\ c_pc' = "raised"
    /\ UNCHANGED <<notCsv, data_context, c_result, processed>>

\* line 90: the walk is exhausted
CsvReturn ==
    /\ c_pc = "walk"
    /\ c_result' = Some(data_context)
    /\ c_pc' = "done"
    /\ UNCHANGED <<notCsv, data_context, nFiles, processed>>

CsvNext ==
    \/ SkipFile
    \/ StoreFile
    \/ EmptyFile
    \/ CsvReturn

(***************************************************************************)
(* Texts: a text is the sequence of the pieces it is concatenated from     *)
(* (string literals and interpolated values), so that concatenation is \o. *)
(***************************************************************************)
\* the character ` (U+0060)
Backtick == "<backtick>"

RECURSIVE JoinTexts(_, _)
\* sep.join(parts)
JoinTexts(parts, sep) ==
    IF Len(parts) = 0 THEN <<>>
    ELSE IF Len(parts) = 1 THEN parts[1]
    ELSE parts[1] \o <<sep>> \o JoinTexts(Tail(parts), sep)

\* f'"{col}"' without the quotes
QuoteCol_Bare(col) == <<col>>

\* f'"{col}"'
QuoteCol(col) == <<"\"", col, "\"">>

\* ', '.join([f'"{col}"' for col in columns])
ColumnList(columns) ==
    JoinTexts([i \in 1..Len(columns) |-> QuoteCol(columns[i])], ", ")

\* f"SELECT {columns} FROM \"{table_name}\" LIMIT 5;"
SampleQuery(columns, table_name) ==
    <<"SELECT ">> \o columns \o <<" FROM \"", table_name, "\" LIMIT 5;">>

\* f"- Table `{table_name}` example query: {sample_query}"
TableLine(table_name, sample_query) ==
    <<"- ", "Table ", Backtick, table_name, Backtick, " example query: ">>
      \o sample_query

\* lines 150-184: the fixed parts (the typographic apostrophes of the
\* source are written ')
PreambleParts(db) ==
    << <<"Role: You are an advanced database querying agent crafted specifically for generating precise SQL queries for Amazon Athena concerning the ", db, ".">>,
       <<"Objective: Generate SQL queries to return data based on the provided schema and user request. Ultimately, answer the user's question regarding the data generated using SQL Query.">>,
       <<"1. Query Decomposition and Understanding:">>,
       <<"- Analyze the user's request to understand the main objective.">>,
       <<"- Break down requests into sub-queries that can each address a part of the user's request, using the schema provided.">>,
       <<"2. SQL Query Creation:">>,
       <<"- For each sub-query, use the relevant tables and fields from the provided schema.">>,
       <<"- Construct SQL queries that are precise and tailored to retrieve the exact data required by the user's request.">>,
       <<"- Use table joins when combining data from two or more tables based on related columns. For example, if data is split across multiple tables, each containing different attributes about a common entity (such as building id), you may need to use a table join. Table joins are also useful when filtering data based on conditions that span multiple tables. Lastly, table joins are useful when aggregating data from multiple tables or enriching a dataset with additional context or descriptive information stored in another table. The types of joins are: INNER JOIN, LEFT JOIN, RIGHT JOIN, and FULL JOIN.">>,
       <<"- Avoid joins if all the required data is available in a single table.">>,
       <<"3. Query Execution and Response:">>,
       <<"- Execute the constructed SQL queries against the Amazon Athena database.">>,
       <<"- Return the results of the SQL query in a format that answers the user's question, ensuring data integrity and accuracy.">>,
       <<"If you get the following Lambda error:">>,
       <<"<lambda_error>">>,
       <<"Lambda response exceeds maximum size 25KB: 123644">>,
       <<"</lambda_error>">>,
       <<"Then: LIMIT to 10 rows.">>,
       <<"The following examples illustrate the kind of queries you should be able to construct based on the available data:">> >>

\* line 186 (and 126)
AthenaOutput(e) ==
    IF e = "poc" THEN "athena-destination-store-texttosql"
    ELSE "athena-destination-chatbot"

\* line 188: the truth value of data_context (None and {} are false)
Truthy(c) == c # None /\ Len(c[1]) > 0

(***************************************************************************)
(* Inputs                                                                  *)
(***************************************************************************)
TableNames == {"trips", "zones", "fares"}
ColumnLists == {<<>>, <<"fare">>, <<"id", "fare">>}

\* the lists of at most n distinct table names
NameLists(n) ==
    {s \in SeqsUpTo(TableNames, n) :
        \A i, j \in 1..Len(s) : i # j => s[i] # s[j]}

\* data_context mappings: items in iteration order, keys distinct
Mappings ==
    UNION {[1..Len(names) ->
              {[name |-> nm, columns |-> cl] : nm \in TableNames,
                                               cl \in ColumnLists}]
           : names \in NameLists(MaxEntries)}

ContextMappings ==
    {m \in Mappings : \A i, j \in 1..Len(m) : i # j => m[i].name # m[j].name}

(***************************************************************************)
(* The catalog reader and generate_instruction                             *)
(***************************************************************************)
\* line 216 with every state taken for a final one
IsTerminal_Always(state) == TRUE

\* line 216
IsTerminal(state) == state \in {"SUCCEEDED", "FAILED", "CANCELLED"}

\* lines 220-221 without the raise
WaitOutcome_NoRaise(state) == "results"

\* lines 220-221: where _wait_for_query_execution leaves its caller
WaitOutcome(state) == IF state # "SUCCEEDED" THEN "raised" ELSE "results"

\* the for loop of line 197 staying on its table
NextIndex_Stuck(i) == IF i < 2 THEN i + 1 ELSE i

\* lines 189, 197: the for loops advance by one item
NextIndex(i) == i + 1

\* lines 102-107 and 127-132: the arguments of start_query_execution
QueryOf(o, db, e, table) ==
    IF o = "get_all_tables"
    THEN [QueryString |-> <<"SHOW TABLES IN ", db>>,
          Database |-> db,
          OutputLocation |-> <<"s3://", AthenaOutput(e), "/">>]
    ELSE [QueryString |-> <<"DESCRIBE ", db, ".", table>>,
          Database |-> db,
          OutputLocation |-> <<"s3://", AthenaOutput(e), "/">>]

InstrStart ==
    /\ i_pc = "start"
    /\ database_name = "vehicle-data"
    /\ env \in {"poc", "prod"}
    /\ gi_data_context \in {None} \cup {Some(m) : m \in ContextMappings}
    /\ instruction_parts = <<>>
    /\ idx = 0
    /\ tables = <<>>
    /\ op = "none"
    /\ jobs = <<>>
    /\ polls = 0
    /\ i_result = None
    /\ i_error = None

InstrIdle ==
    /\ i_pc = "idle"
    /\ database_name = "vehicle-data"
    /\ env = "poc"
    /\ gi_data_context = None
    /\ instruction_parts = <<>>
    /\ idx = 0
    /\ tables = <<>>
    /\ op = "none"
    /\ jobs = <<>>
    /\ polls = 0
    /\ i_result = None
    /\ i_error = None

\* lines 150-188, 194-196: the fixed parts, then the branch on data_context
GI_Begin ==
    /\ i_pc = "start"
    /\ instruction_parts' = PreambleParts(database_name)
    /\ IF Truthy(gi_data_context)
       THEN /\ i_pc' = "ctx_loop"
            /\ idx' = 1
            /\ op' = op
       ELSE /\ i_pc' = "submit"
            /\ idx' = idx
            /\ op' = "get_all_tables"
    /\ UNCHANGED <<notInstr, polls, database_name, env, gi_data_context,
                   tables, jobs, i_result, i_error>>

\* lines 189-193: one item of the supplied context
GI_ContextEntry ==
    /\ i_pc = "ctx_loop"
    /\ idx <= Len(gi_data_context[1])
    /\ LET table_name == gi_data_context[1][idx].name
           columns == ColumnList(gi_data_context[1][idx].columns)
       IN  instruction_parts' =
             Append(instruction_parts,
                    TableLine(table_name, SampleQuery(columns, table_name)))
    /\ idx' = NextIndex(idx)
    /\ UNCHANGED <<notInstr, polls, i_pc, database_name, env, gi_data_context,
                   tables, op, jobs, i_result, i_error>>

\* lines 103-109, 128-134: start_query_execution; the job starts running
Submit ==
    /\ i_pc = "submit"
    /\ LET table == IF op = "get_table_schema" THEN tables[idx] ELSE ""
       IN  jobs' = Append(jobs,
                          [query |-> QueryOf(op, database_name, env, table),
                           state |-> "RUNNING",
                           final |-> 0,
                           fetched |-> FALSE])
    /\ polls' = 0
    /\ i_pc' = "poll"
    /\ UNCHANGED <<notInstr, database_name, env, gi_data_context,
                   instruction_parts, idx, tables, op, i_result, i_error>>

\* the Athena service ends the running job
JobEnds ==
    /\ jobs # <<>>
    /\ jobs[Len(jobs)].state = "RUNNING"
    /\ \E st \in {"SUCCEEDED", "FAILED", "CANCELLED"} :
         jobs' = [jobs EXCEPT ![Len(jobs)].state = st]
    /\ UNCHANGED <<notInstr, polls, i_pc, database_name, env, gi_data_context,
                   instruction_parts, idx, tables, op, i_result, i_error>>

\* lines 213-221: one get_query_execution and what follows from the state
Poll ==
    /\ i_pc = "poll"
    /\ LET id == Len(jobs)
           state == jobs[id].state
       IN  IF IsTerminal(state)
           THEN /\ jobs' = [jobs EXCEPT ![id].final = @ + 1]
                /\ polls' = polls
                /\ i_pc' = WaitOutcome(state)
                /\ i_error' = IF WaitOutcome(state) = "raised"
                              THEN Some(<<"Query failed with state ", state>>)
                              ELSE i_error
           ELSE /\ polls < MaxPolls
                /\ jobs' = jobs
                /\ polls' = polls + 1
                /\ i_pc' = "sleep"
                /\ i_error' = i_error
    /\ UNCHANGED <<notInstr, database_name, env, gi_data_context,
                   instruction_parts, idx, tables, op, i_result>>

\* line 218: time.sleep(1)
Sleep ==
    /\ i_pc = "sleep"
    /\ i_pc' = "poll"
    /\ UNCHANGED <<notInstr, polls, database_name, env, gi_data_context,
                   instruction_parts, idx, tables, op, jobs, i_result,
                   i_error>>

\* lines 112-113, 196: get_query_results of SHOW TABLES; the rows after
\* the first are the table names
ListResults ==
    /\ i_pc = "results"
    /\ op = "get_all_tables"
    /\ jobs' = [jobs EXCEPT ![Len(jobs)].fetched = TRUE]
    /\ tables' \in NameLists(MaxTables)
    /\ idx' = 1
    /\ i_pc' = "table_loop"
    /\ UNCHANGED <<notInstr, polls, database_name, env, gi_data_context,
                   instruction_parts, op, i_result, i_error>>

\* lines 197-198: the next table is described
GI_NextTable ==
    /\ i_pc = "table_loop"
    /\ idx <= Len(tables)
    /\ op' = "get_table_schema"
    /\ i_pc' = "submit"
    /\ UNCHANGED <<notInstr, polls, database_name, env, gi_data_context,
                   instruction_parts, idx, tables, jobs, i_result, i_error>>

\* lines 137-138, 199-201: get_query_results of DESCRIBE, and the line of
\* the table
DescribeResults ==
    /\ i_pc = "results"
    /\ op = "get_table_schema"
    /\ jobs' = [jobs EXCEPT ![Len(jobs)].fetched = TRUE]
    /\ \E columns \in ColumnLists :
         LET table_name == tables[idx]
             formatted_columns == ColumnList(columns)
         IN  instruction_parts' =
               Append(instruction_parts,
                      TableLine(table_name,
                                SampleQuery(formatted_columns, table_name)))
    /\ idx' = NextIndex(idx)
    /\ i_pc' = "table_loop"
    /\ UNCHANGED <<notInstr, polls, database_name, env, gi_data_context,
                   tables, op, i_result, i_error>>

\* line 203: the loop is over
GI_Return ==
    /\ \/ i_pc = "ctx_loop" /\ idx > Len(gi_data_context[1])
       \/ i_pc = "table_loop" /\ idx > Len(tables)
    /\ i_result' = Some(JoinTexts(instruction_parts, " "))
    /\ i_pc' = "done"
    /\ UNCHANGED <<notInstr, polls, database_name, env, gi_data_context,
                   instruction_parts, idx, tables, op, jobs, i_error>>

InstrNext ==
    \/ GI_Begin
    \/ GI_ContextEntry
    \/ Submit
    \/ JobEnds
    \/ Poll
    \/ Sleep
    \/ ListResults
    \/ GI_NextTable
    \/ DescribeResults
    \/ GI_Return

(***************************************************************************)
(* Specifications                                                          *)
(***************************************************************************)
InitFolder == FolderStart /\ CsvIdle /\ InstrIdle
SpecFolder == InitFolder /\ [][FolderNext]_vars

InitCsv == CsvStart /\ FolderIdle /\ InstrIdle
SpecCsv == InitCsv /\ [][CsvNext]_vars

InitInstr == InstrStart /\ FolderIdle /\ CsvIdle
SpecInstr == InitInstr /\ [][InstrNext]_vars

\* The caller is one thread that keeps running: a poll or a sleep that is
\* due is executed. Nothing is assumed of the Athena service.
SpecInstrFair == SpecInstr /\ WF_vars(Poll) /\ WF_vars(Sleep)

(***************************************************************************)
(* Properties of process_folder (checked under SpecFolder)                 *)
(***************************************************************************)
\* the columns of the returned context, as a set
ResultColumns ==
    {f_result[1].columns[i] : i \in 1..Len(f_result[1].columns)}

\* C4: malformed lines never abort the scan: the returned FolderContext
\* reflects exactly the union of the keys of the valid mapping lines of the
\* objects read, whatever malformed lines stand between them.
C4_MalformedLinesNeverAbort ==
    f_pc = "done" => ResultColumns = validKeys

\* C5: an object whose content cannot be fetched or decompressed is skipped
\* as a whole: when its processing has failed, the context holds the columns
\* and the sample record it held before the object was fetched.
C5_FailedObjectContributesNothing ==
    lastErr \in {"fetch", "gzip"} =>
        /\ folder_context.columns = colsAtOpen
        /\ folder_context.sample_data = sampleAtOpen

\* C6: at every point of the scan the columns are the union of the keys of
\* the mapping records decoded so far (so they depend on the set of decoded
\* records only, not on the order of objects and lines), the returned list
\* enumerates that set, and it is empty when no key matched .json.gz.
C6_ColumnsAreUnionOfDecodedKeys ==
    /\ folder_context.columns = UNION {KeysOf(r) : r \in decoded}
    /\ f_pc = "done" =>
         /\ ResultColumns = UNION {KeysOf(r) : r \in decoded}
         /\ Len(f_result[1].columns) = Cardinality(ResultColumns)
    /\ ~anyMatch => folder_context.columns = {}

\* C6 witness: a finished scan that decoded two mapping records with
\* different keys, the second of them from a second object.
C6_Witness ==
    /\ f_pc = "done"
    /\ {Rec1, Rec2} \subseteq decoded
    /\ ResultColumns = {"a", "b"}
    /\ colsAtOpen # {}

\* C7: sample_data is absent exactly as long as no mapping record has been
\* decoded, and from then on it is the first decoded mapping record (later
\* records never replace it); the returned sample is that record, and it is
\* absent when no key matched .json.gz.
C7_SampleIsFirstDecodedRecord ==
    /\ folder_context.sample_data = firstRec
    /\ (folder_context.sample_data = None) <=> (decoded = {})
    /\ f_pc = "done" => f_result[1].sample_data = firstRec
    /\ ~anyMatch => folder_context.sample_data = None

\* C7 witness: a finished scan whose first mapping record was the empty
\* object and that decoded other records after it.
C7_Witness ==
    /\ f_pc = "done"
    /\ firstRec = Some(Rec0)
    /\ {Rec1, Rec2} \subseteq decoded
    /\ f_result[1].sample_data = Some(Rec0)

(***************************************************************************)
(* Properties of analyze_csv_files (checked under SpecCsv)                 *)
(***************************************************************************)
\* k is name with every space replaced by an underscore
IsKeyOf(k, name) ==
    /\ Len(k) = Len(name)
    /\ \A j \in 1..Len(name) :
         SubSeq(k, j, j) = IF SubSeq(name, j, j) = " " THEN "_"
                           ELSE SubSeq(name, j, j)

\* the stored files whose first path component gives key k
StoredUnder(k) ==
    {i \in 1..Len(processed) : IsKeyOf(k, processed[i].path[1])}

Last(S) == CHOOSE i \in S : \A j \in S : j <= i

\* C9: the result is keyed by the first component of each stored file's
\* path relative to the root (the top-level subdirectory of a file that
\* lies in one) with spaces replaced by underscores; the entry of a key
\* holds the columns and sample record of the last stored file with that
\* key and nothing of the earlier ones, so a write leaves the entries of
\* the other keys as they were.
C9_LastWriteWins ==
    /\ \A i \in 1..Len(processed) :
         \E k \in DOMAIN data_context : IsKeyOf(k, processed[i].path[1])
    /\ \A k \in DOMAIN data_context :
         /\ StoredUnder(k) # {}
         /\ data_context[k] = processed[Last(StoredUnder(k))].entry
    /\ c_pc = "done" => c_result = Some(data_context)

\* C9 witness: two files with different columns under the directory "a b",
\* a file of another directory stored between them, and the walk finished.
C9_Witness ==
    /\ c_pc = "done"
    /\ Len(processed) = 3
    /\ processed[1].path[1] = "a b"
    /\ processed[2].path[1] = "c"
    /\ processed[3].path[1] = "a b"
    /\ processed[1].entry.columns # processed[3].entry.columns
    /\ c_result[1]["a_b"] = processed[3].entry
    /\ c_result[1]["c"] = processed[2].entry

(***************************************************************************)
(* Properties of generate_instruction and the catalog reader (checked      *)
(* under SpecInstr)                                                        *)
(***************************************************************************)
RECURSIVE Concat(_)
\* the texts of a list, one after the other
Concat(texts) ==
    IF Len(texts) = 0 THEN <<>> ELSE texts[1] \o Concat(Tail(texts))

\* the fixed preamble: its parts with one space between two of them
PreambleText ==
    LET parts == PreambleParts(database_name)
    IN  Concat([i \in 1..Len(parts) |->
                  IF i = 1 THEN parts[i] ELSE <<" ">> \o parts[i]])

\* "c1", "c2", ...: every column in double quotes, comma-space between two
QuotedColumns(columns) ==
    IF Len(columns) = 0 THEN <<>>
    ELSE [i \in 1..(4 * Len(columns) - 1) |->
            CASE i % 4 = 1 -> "\""
              [] i % 4 = 2 -> columns[(i + 2) \div 4]
              [] i % 4 = 3 -> "\""
              [] OTHER -> ", "]

\* Table `<name>` example query: SELECT <columns> FROM "<name>" LIMIT 5;
ClaimedLine(name, columns) ==
    <<"Table ", Backtick, name, Backtick, " example query: ", "SELECT ">>
      \o QuotedColumns(columns) \o <<" FROM \"", name, "\" LIMIT 5;">>

FailedStates == {"FAILED", "CANCELLED"}

\* C1: get_query_results is called only for a job whose state SUCCEEDED has
\* been observed; a job observed FAILED or CANCELLED makes the operation
\* raise with that state in the message, its results are never fetched and
\* no list is returned (no table list after a failed SHOW TABLES, no line
\* for the table after a failed DESCRIBE).
C1_FailedQueryRaises ==
    \A j \in 1..Len(jobs) :
       /\ jobs[j].fetched => jobs[j].state = "SUCCEEDED" /\ jobs[j].final = 1
       /\ (jobs[j].final > 0 /\ jobs[j].state \in FailedStates) =>
            /\ i_pc = "raised"
            /\ i_error = Some(<<"Query failed with state ", jobs[j].state>>)
            /\ ~jobs[j].fetched
            /\ i_result = None
            /\ j = 1 => tables = <<>>
            /\ j > 1 => Len(instruction_parts)
                          = Len(PreambleParts(database_name)) + (j - 2)

\* C1 witness: get_all_tables has returned two tables, get_table_schema has
\* returned for the first, and the DESCRIBE of the second was cancelled.
C1_Witness ==
    /\ i_pc = "raised"
    /\ Len(jobs) = 3
    /\ jobs[1].fetched /\ jobs[2].fetched
    /\ jobs[3].state = "CANCELLED"
    /\ i_error = Some(<<"Query failed with state ", "CANCELLED">>)

\* C2: with an empty context mapping no query is submitted and the result
\* is the fixed preamble alone.
C2_EmptyContextGivesPreambleOnly ==
    gi_data_context = Some(<<>>) =>
        /\ jobs = <<>>
        /\ i_pc = "done" => i_result = Some(PreambleText)

\* what C3 says of every state
C3_Safety ==
    \A j \in 1..Len(jobs) :
       /\ jobs[j].final <= 1
       /\ jobs[j].final = 1 =>
            /\ jobs[j].state \in {"SUCCEEDED", "FAILED", "CANCELLED"}
            /\ ~(j = Len(jobs) /\ i_pc \in {"poll", "sleep"})
       /\ jobs[j].final = 0 =>
            /\ j = Len(jobs)
            /\ i_pc \in {"poll", "sleep"}
            /\ i_result = None /\ i_error = None /\ ~jobs[j].fetched
       /\ (j = Len(jobs) /\ i_pc = "sleep") => polls >= 1

\* the caller waits for a job that has reached a final state
WaitingForEndedJob ==
    /\ i_pc \in {"poll", "sleep"}
    /\ jobs[Len(jobs)].state \in {"SUCCEEDED", "FAILED", "CANCELLED"}

\* C3: the wait goes on exactly as long as no poll has observed a final
\* state: while only RUNNING has been observed the caller is still in the
\* loop (it has neither returned nor raised, however many polls there
\* were), the one poll that observes SUCCEEDED, FAILED or CANCELLED is the
\* job's last, and once the job has reached such a state the wait ends.
C3_PollsUntilTerminal ==
    /\ []C3_Safety
    /\ WaitingForEndedJob ~> (i_pc \in {"results", "raised"})

\* C3 witness: a job polled MaxPolls times while running, then observed
\* SUCCEEDED by the next poll, which ended the wait.
C3_Witness ==
    /\ i_pc = "results"
    /\ polls = MaxPolls
    /\ jobs[Len(jobs)].final = 1
    /\ jobs[Len(jobs)].state = "SUCCEEDED"

\* C8: with a non-empty context mapping the result is the fixed preamble
\* followed, for every entry in the mapping's order, by a space and the
\* entry's line: the list marker "- " and then
\*   Table `<name>` example query: SELECT <columns> FROM "<name>" LIMIT 5;
\* and no query is submitted.
C8_ContextLines ==
    (Truthy(gi_data_context) /\ i_pc = "done") =>
        LET m == gi_data_context[1]
        IN  /\ i_result =
                 Some(PreambleText
                        \o Concat([i \in 1..Len(m) |->
                                     <<" ", "- ">>
                                       \o ClaimedLine(m[i].name,
                                                      m[i].columns)]))
            /\ Len(instruction_parts)
                 = Len(PreambleParts(database_name)) + Len(m)
            /\ jobs = <<>>

\* C8 witness: the context {"trips": ["id", "fare"], "zones": ["fare"]};
\* the result holds the line of trips, piece by piece, and that of zones
\* after it.
C8_Witness ==
    /\ i_pc = "done"
    /\ gi_data_context = Some(<<[name |-> "trips", columns |-> <<"id", "fare">>],
                                [name |-> "zones", columns |-> <<"fare">>]>>)
    /\ LET r == i_result[1]
           n == Len(PreambleText)
       IN  /\ SubSeq(r, 1, n) = PreambleText
           /\ SubSeq(r, n + 3, n + 18) =
                <<"Table ", Backtick, "trips", Backtick, " example query: ",
                  "SELECT ", "\"", "id", "\"", ", ", "\"", "fare", "\"",
                  " FROM \"", "trips", "\" LIMIT 5;">>
           /\ SubSeq(r, n + 19, Len(r)) =
                <<" ", "- ", "Table ", Backtick, "zones", Backtick,
                  " example query: ", "SELECT ", "\"", "fare", "\"",
                  " FROM \"", "zones", "\" LIMIT 5;">>

\* C10: schema discovery submits SHOW TABLES first and then one DESCRIBE
\* per listed table, in the listed order and never twice; a job is
\* submitted only when every job before it has been observed SUCCEEDED and
\* its results fetched; once a job has ended FAILED or CANCELLED it stays
\* the last job submitted and no instruction is returned.
C10_DiscoverySequence ==
    LET n == Len(jobs)
    IN  /\ n <= 1 + Len(tables)
        /\ Truthy(gi_data_context) => n = 0
        /\ n >= 1 =>
             jobs[1].query.QueryString = <<"SHOW TABLES IN ", database_name>>
        /\ \A j \in 2..n :
             jobs[j].query.QueryString
               = <<"DESCRIBE ", database_name, ".", tables[j - 1]>>
        /\ \A j \in 1..(n - 1) :
             /\ jobs[j].state = "SUCCEEDED"
             /\ jobs[j].final = 1
             /\ jobs[j].fetched
        /\ i_pc = "raised" =>
             /\ n >= 1
             /\ jobs[n].state \in FailedStates
             /\ i_result = None
        /\ (i_result # None /\ ~Truthy(gi_data_context)) =>
             /\ n = 1 + Len(tables)
             /\ jobs[n].fetched

\* C10 witness: two tables listed, the DESCRIBE of the first failed, the
\* second was never described and nothing was returned.
C10_Witness ==
    /\ i_pc = "raised"
    /\ Len(tables) = 2
    /\ Len(jobs) = 2
    /\ jobs[2].state = "FAILED"
    /\ i_result = None

====
